---- MODULE Spec2Model ----
(***************************************************************************)
(* SockMaster (src/main.py): apply_texture, create_pattern, border and the *)
(* main pipeline, as state machines over small pixel buffers.              *)
(*                                                                         *)
(* An image is a record [size |-> <<w, h>>, px |-> f] where f maps every   *)
(* coordinate <<x, y>> of the buffer to an RGBA pixel <<r, g, b, a>> or,   *)
(* for mode "L", to a byte.  Input images are drawn in the mode the code   *)
(* converts them to (RGBA, mask L), on which convert() is a plain copy.    *)
(* The Pillow primitives the code calls are modelled by what Pillow        *)
(* computes (Paste.c, AlphaComposite.c, Blend.c, RankFilter.c, Filter.c).  *)
(* Each function has its own frame variable; a run starts in exactly one   *)
(* function, chosen by Init, and the other frames stay idle.               *)
(***************************************************************************)
EXTENDS Integers, Sequences, FiniteSets

VARIABLES
  tx,   \* frame of apply_texture
  bd,   \* frame of border
  cp,   \* frame of create_pattern
  mn    \* frame of main

vars == <<tx, bd, cp, mn>>

Idle == [pc |-> "idle"]

(***************************************************************************)
(* Bounds of the model.                                                    *)
(***************************************************************************)
\* apply_texture: widest buffer (buffers are MaxTexW x 1 at most)
MaxTexW == 2
\* border: most pixels of an input image, largest stroke radius
MaxPixels == 4
MaxRadius == 2
\* create_pattern: largest base of the small cases, pixels sampled per tile
\* buffer, and the number of cells after which a grid walk whose geometry lets
\* it go on for ever is cut off
MaxBaseW == 3
MaxBaseH == 2
TileSamples == 1
MaxCells == 4

(***************************************************************************)
(* Pixel buffers.                                                          *)
(***************************************************************************)
Coords(size) == (0 .. size[1] - 1) \X (0 .. size[2] - 1)

NewImage(size, value) == [size |-> size, px |-> [c \in Coords(size) |-> value]]

ImagesOf(sizes, values) ==
  UNION {{[size |-> s, px |-> f] : f \in [Coords(s) -> values]} : s \in sizes}

\* the input images to be brought to `size`: every image of that size, and one
\* image of each other size (resizing replaces its content, see Resized)
SourcesFor(size, sizes, values, fill) ==
  ImagesOf({size}, values) \cup {NewImage(s, fill) : s \in sizes \ {size}}

Transparent == <<0, 0, 0, 0>>

SetAlpha(p, a) == <<p[1], p[2], p[3], a>>

\* ImagingUtils.h: SHIFTFORDIV255 and the rounding division by 255
SHIFTFORDIV255(a) == ((a \div 256) + a) \div 256

DIV255(a) == SHIFTFORDIV255(a + 128)

\* BLEND(mask, in1, in2): in1 kept where mask = 0, in2 taken where mask = 255
BLEND(m, in1, in2) == DIV255(in1 * (255 - m) + in2 * m)

BlendPixel(m, p1, p2) == [k \in 1..4 |-> BLEND(m, p1[k], p2[k])]

\* Python's round(): to nearest, ties to even, of n / d
RoundHalfEven(n, d) ==
  LET q == n \div d
      r == n % d
  IN  IF 2 * r < d THEN q
      ELSE IF 2 * r > d THEN q + 1
      ELSE IF q % 2 = 0 THEN q ELSE q + 1

CLIP8(v) == IF v < 0 THEN 0 ELSE IF v > 255 THEN 255 ELSE v

\* band.point(lambda p: p * alpha): the lookup table round(p * alpha), alpha in tenths
ScaleAlpha(p, alpha) == CLIP8(RoundHalfEven(p * alpha, 10))

\* image.putalpha(band.point(lambda p: p * alpha)) on an RGBA buffer
PutScaledAlpha(img, alpha) ==
  [img EXCEPT !.px = [c \in DOMAIN img.px |->
                        SetAlpha(img.px[c], ScaleAlpha(img.px[c][4], alpha))]]

\* im.resize(size): a copy when the size is unchanged, otherwise a resampled
\* buffer of the requested size (any content the resampling filter may give)
Resized(img, size, values) ==
  IF img.size = size THEN {img} ELSE ImagesOf({size}, values)

\* Image.composite(image1, image2, mask): image2.copy() with image1 pasted
\* through the L mask (paste_mask_L)
CompositeSwapped(image1, image2, mask) ==
  [image1 EXCEPT !.px = [c \in DOMAIN image1.px |->
                          BlendPixel(mask.px[c], image1.px[c], image2.px[c])]]

Composite(image1, image2, mask) ==
  [image2 EXCEPT !.px = [c \in DOMAIN image2.px |->
                          BlendPixel(mask.px[c], image2.px[c], image1.px[c])]]

\* Image.alpha_composite(dst, src), one pixel (ImagingAlphaComposite)
OverPixel(dst, src) ==
  IF src[4] = 0 THEN dst
  ELSE LET blend   == dst[4] * (255 - src[4])
           outa255 == src[4] * 255 + blend
           coef1   == (src[4] * 255 * 255 * 128) \div outa255
           coef2   == 255 * 128 - coef1
           ch(k)   == SHIFTFORDIV255(src[k] * coef1 + dst[k] * coef2 + 128 * 128) \div 128
       IN  <<ch(1), ch(2), ch(3), DIV255(outa255)>>

AlphaComposite(im1, im2) ==
  [im1 EXCEPT !.px = [c \in DOMAIN im1.px |-> OverPixel(im1.px[c], im2.px[c])]]

(***************************************************************************)
(* apply_texture(base_image, texture_image, mask_image, output_path, alpha)*)
(***************************************************************************)
TexSizes == {<<w, 1>> : w \in 1..MaxTexW}
BasePalette == {Transparent, <<10, 20, 30, 255>>, <<90, 60, 30, 128>>}
TexturePalette == {<<255, 255, 255, 255>>, <<200, 100, 50, 128>>}
MaskValues == {0, 128, 255}
\* alpha, in tenths
Alphas == {0, 6, 10}

\* ImageEnhance.Brightness(texture).enhance(0.7): blend of black (keeping the
\* texture's alpha) with the texture, truncated
Brightness(img) ==
  [img EXCEPT !.px = [c \in DOMAIN img.px |->
      <<(img.px[c][1] * 7) \div 10, (img.px[c][2] * 7) \div 10,
        (img.px[c][3] * 7) \div 10, img.px[c][4]>>]]

\* lines 18-19: the size the texture and the mask are resized to
TexTargetSize(base, texture_image) == base.size

InitTexture ==
  /\ \E b \in ImagesOf(TexSizes, BasePalette), a \in Alphas :
     \E t \in SourcesFor(b.size, TexSizes, TexturePalette, <<255, 255, 255, 255>>),
        m \in SourcesFor(b.size, TexSizes, MaskValues, 255) :
       tx = [pc |-> "start", base_image |-> b, texture_image |-> t,
             mask_image |-> m, alpha |-> a]
  /\ bd = Idle /\ cp = Idle /\ mn = Idle

\* lines 17-19: the base is converted (a copy), the texture and the mask are
\* converted and resized to the base's size
TexPrepare ==
  /\ tx.pc = "start"
  /\ LET base == tx.base_image
         size == TexTargetSize(base, tx.texture_image)
     IN  \E t \in Resized(tx.texture_image, size, TexturePalette),
            m \in Resized(tx.mask_image, size, MaskValues) :
           tx' = [pc |-> "prepared", base_image |-> tx.base_image,
                  texture_image |-> tx.texture_image, mask_image |-> tx.mask_image,
                  alpha |-> tx.alpha, base |-> base, texture |-> t, mask |-> m]
  /\ UNCHANGED <<bd, cp, mn>>

\* lines 22-27: darken the texture, scale its alpha
TexAdjust ==
  /\ tx.pc = "prepared"
  /\ tx' = [tx EXCEPT !.pc = "adjusted",
                      !.texture = PutScaledAlpha(Brightness(tx.texture), tx.alpha)]
  /\ UNCHANGED <<bd, cp, mn>>

\* lines 30-38: masked layer, composite over the base, return.  Image.composite
\* and Image.alpha_composite raise ValueError when their buffers differ in size.
TexComposite ==
  /\ tx.pc = "adjusted"
  /\ LET canvas == NewImage(tx.base.size, Transparent)
         layer == Composite(tx.texture, canvas, tx.mask)
     IN  tx' = IF tx.texture.size = canvas.size /\ tx.mask.size = canvas.size
               THEN [pc |-> "returned", base_image |-> tx.base_image,
                     texture_image |-> tx.texture_image,
                     mask_image |-> tx.mask_image,
                     alpha |-> tx.alpha, base |-> tx.base, texture |-> tx.texture,
                     mask |-> tx.mask, textured_layer |-> layer,
                     textured |-> AlphaComposite(tx.base, layer)]
               ELSE [tx EXCEPT !.pc = "raised"]
  /\ UNCHANGED <<bd, cp, mn>>

NextTexture == TexPrepare \/ TexAdjust \/ TexComposite

(***************************************************************************)
(* border(img, stroke_radius, color)                                       *)
(***************************************************************************)
ImgSizes == {s \in (1..MaxPixels) \X (1..MaxPixels) : s[1] * s[2] <= MaxPixels}
ImgPalette == {Transparent, <<10, 20, 30, 255>>, <<90, 60, 30, 128>>}
Colors == {<<255, 255, 255, 255>>, <<255, 0, 0, 128>>}
Radii == 0..MaxRadius

\* line 114
NewSizeOneSided(img, stroke_radius) ==
  <<img.size[1] + stroke_radius, img.size[2] + stroke_radius>>

NewSize(img, stroke_radius) ==
  <<img.size[1] + 2 * stroke_radius, img.size[2] + 2 * stroke_radius>>

\* line 121: img.getchannel(3).point(lambda x: 255 if x > 0 else 0)
Binarize(img) ==
  [img EXCEPT !.px = [c \in DOMAIN img.px |-> IF img.px[c][4] > 0 THEN 255 ELSE 0]]

\* dst.paste(src, (ox, oy)): the part of src that falls inside dst replaces
\* the pixels of dst under it; dst keeps its size
Paste(dst, src, ox, oy) ==
  [dst EXCEPT !.px = [c \in DOMAIN dst.px |->
      LET sc == <<c[1] - ox, c[2] - oy>>
      IN  IF sc \in DOMAIN src.px THEN src.px[sc] ELSE dst.px[c]]]

\* dst.paste(src, (ox, oy), src), an RGBA mask (paste_mask_RGBA): every
\* channel, alpha included, is blended by the mask's alpha; the mask is the
\* source itself
PasteMasked(dst, src, ox, oy) ==
  [dst EXCEPT !.px = [c \in DOMAIN dst.px |->
      LET sc == <<c[1] - ox, c[2] - oy>>
      IN  IF sc \in DOMAIN src.px
          THEN BlendPixel(src.px[sc][4], dst.px[c], src.px[sc])
          ELSE dst.px[c]]]

\* image.expand(m, m) (ImagingExpand): m pixels more on every side, the edge
\* pixels repeated
Clamp(v, lo, hi) == IF v < lo THEN lo ELSE IF v > hi THEN hi ELSE v

Expand(img, m) ==
  LET w == img.size[1]
      h == img.size[2]
      size == <<w + 2 * m, h + 2 * m>>
  IN  [size |-> size,
       px |-> [c \in Coords(size) |->
                 img.px[<<Clamp(c[1] - m, 0, w - 1), Clamp(c[2] - m, 0, h - 1)>>]]]

Max(S) == CHOOSE v \in S : \A u \in S : u <= v
Min(S) == CHOOSE v \in S : \A u \in S : v <= u

\* the values under the size x size window whose top-left corner is c
Window(img, c, size) ==
  {img.px[<<c[1] + i, c[2] + j>>] : i \in 0 .. size - 1, j \in 0 .. size - 1}

\* ImageFilter.MaxFilter(size): expand by size // 2, then the rank filter of
\* rank size * size - 1 (the window's maximum)
MinFilter(img, size) ==
  LET e == Expand(img, size \div 2)
  IN  [img EXCEPT !.px = [c \in DOMAIN img.px |-> Min(Window(e, c, size))]]

MaxFilter(img, size) ==
  LET e == Expand(img, size \div 2)
  IN  [img EXCEPT !.px = [c \in DOMAIN img.px |-> Max(Window(e, c, size))]]

\* ImageFilter.SMOOTH: the 3x3 kernel (1 1 1 / 1 5 1 / 1 1 1) / 13, rounded;
\* the outermost rows and columns are copied, and so is a buffer smaller than
\* the kernel
Smooth(img) ==
  LET w == img.size[1]
      h == img.size[2]
      sum(c) == 4 * img.px[c]
                + img.px[<<c[1] - 1, c[2] - 1>>] + img.px[<<c[1], c[2] - 1>>]
                + img.px[<<c[1] + 1, c[2] - 1>>] + img.px[<<c[1] - 1, c[2]>>]
                + img.px[c] + img.px[<<c[1] + 1, c[2]>>]
                + img.px[<<c[1] - 1, c[2] + 1>>] + img.px[<<c[1], c[2] + 1>>]
                + img.px[<<c[1] + 1, c[2] + 1>>]
  IN  IF w < 3 \/ h < 3 THEN img
      ELSE [img EXCEPT !.px = [c \in DOMAIN img.px |->
              IF c[1] = 0 \/ c[1] = w - 1 \/ c[2] = 0 \/ c[2] = h - 1
              THEN img.px[c]
              ELSE CLIP8((2 * sum(c) + 13) \div 26)]]

\* stroke_image.putalpha(stroke_alpha)
PutAlpha(img, band) ==
  [img EXCEPT !.px = [c \in DOMAIN img.px |-> SetAlpha(img.px[c], band.px[c])]]

\* lines 125-133: the silhouette, pasted at (radius, radius) into an empty
\* band of the new size and dilated by the maximum filter of size 2 * radius + 1
SilhouetteBand(img, stroke_radius) ==
  Paste(NewImage(NewSize(img, stroke_radius), 0), Binarize(img),
        stroke_radius, stroke_radius)

DilatedSilhouette(img, stroke_radius) ==
  MaxFilter(SilhouetteBand(img, stroke_radius), 2 * stroke_radius + 1)

\* line 142: stroke_image.paste(img, (stroke_radius, stroke_radius), img)
PasteBackAtOrigin(stroke_image, img, stroke_radius) ==
  PasteMasked(stroke_image, img, 0, 0)

PasteBack(stroke_image, img, stroke_radius) ==
  PasteMasked(stroke_image, img, stroke_radius, stroke_radius)

InitBorder ==
  /\ \E i \in ImagesOf(ImgSizes, ImgPalette), r \in Radii, col \in Colors :
       bd = [pc |-> "start", img |-> i, stroke_radius |-> r, color |-> col]
  /\ tx = Idle /\ cp = Idle /\ mn = Idle

\* lines 114-128: the coloured canvas and the silhouette band
BorderCanvas ==
  /\ bd.pc = "start"
  /\ LET new_size == NewSize(bd.img, bd.stroke_radius)
     IN  bd' = [pc |-> "canvas", img |-> bd.img,
                stroke_radius |-> bd.stroke_radius, color |-> bd.color,
                new_size |-> new_size,
                stroke_image |-> NewImage(new_size, bd.color),
                stroke_alpha |-> SilhouetteBand(bd.img, bd.stroke_radius)]
  /\ UNCHANGED <<tx, cp, mn>>

\* lines 132-133: dilate
BorderDilate ==
  /\ bd.pc = "canvas"
  /\ bd' = [bd EXCEPT !.pc = "dilated",
                      !.stroke_alpha = DilatedSilhouette(bd.img, bd.stroke_radius)]
  /\ UNCHANGED <<tx, cp, mn>>

\* line 136: smooth
BorderSmooth ==
  /\ bd.pc = "dilated"
  /\ bd' = [bd EXCEPT !.pc = "smoothed", !.stroke_alpha = Smooth(bd.stroke_alpha)]
  /\ UNCHANGED <<tx, cp, mn>>

\* lines 139-144: the band becomes the canvas's alpha, the image is pasted back
BorderPaste ==
  /\ bd.pc = "smoothed"
  /\ bd' = [bd EXCEPT !.pc = "returned",
                      !.stroke_image =
                          PasteBack(PutAlpha(bd.stroke_image, bd.stroke_alpha),
                                    bd.img, bd.stroke_radius)]
  /\ UNCHANGED <<tx, cp, mn>>

NextBorder == BorderCanvas \/ BorderDilate \/ BorderSmooth \/ BorderPaste

(***************************************************************************)
(* create_pattern(base_image, pattern_image, mask_image, output_path,      *)
(*                pattern_size, base_spacing, spacing_variation, alpha)    *)
(*                                                                         *)
(* The base, the mask and the working canvas are modelled by their size;   *)
(* the canvas also keeps how many tiles were pasted at which point.  A     *)
(* tile buffer is modelled by its size and its pixels at TileSamples       *)
(* sample positions; buffers live in cp.heap, so that two references to    *)
(* one buffer see each other's writes.                                     *)
(***************************************************************************)
\* the scenario of the specification: 500x500 base, tile 100x100, spacing 50
ExampleCase ==
  [base_size |-> <<500, 500>>, pattern_size |-> <<100, 100>>,
   base_spacing |-> <<50, 50>>, spacing_variation |-> <<0, 0>>]

\* small cases without jitter: every base up to the bound, steps of -1..3
FixedCases ==
  [base_size : (1..MaxBaseW) \X (1..MaxBaseH),
   pattern_size : {<<1, 1>>, <<2, 1>>},
   base_spacing : (-2..1) \X (-2..1),
   spacing_variation : {<<0, 0>>}]

\* small cases with jitter on one axis or on both
JitterCases ==
  [base_size : {<<MaxBaseW, MaxBaseH>>},
   pattern_size : {<<1, 1>>, <<2, 1>>},
   base_spacing : {<<0, 0>>, <<1, 1>>, <<-1, 1>>, <<1, -1>>},
   spacing_variation : {<<1, 1>>, <<0, 1>>, <<1, 0>>}]

PatternCases == {ExampleCase} \cup FixedCases \cup JitterCases

TileBuffers(size, values) ==
  {[size |-> size, px |-> f] : f \in [1..TileSamples -> values]}

TilePalette == {<<10, 20, 30, 255>>, <<90, 60, 30, 128>>}

\* the cases run with every tile content, resampled or not
ContentCases ==
  {ExampleCase} \cup
  [base_size : {<<MaxBaseW, MaxBaseH>>},
   pattern_size : {<<2, 1>>},
   base_spacing : {<<0, 0>>, <<0, -1>>},
   spacing_variation : {<<0, 0>>, <<1, 1>>}]

\* the other inputs of a case: size of pattern_image, size of mask_image, alpha
\* in tenths.  Outside ContentCases the tile source has the tile's size already
\* and the mask the base's.
OtherInputs(c) ==
  IF c \in ContentCases
  THEN {[pattern_image_size |-> <<2, 1>>, mask_image_size |-> <<1, 1>>, alpha |-> 5],
        [pattern_image_size |-> <<4, 3>>, mask_image_size |-> <<1, 2>>, alpha |-> 9]}
  ELSE {[pattern_image_size |-> c.pattern_size, mask_image_size |-> c.base_size,
         alpha |-> 5]}

TileContents(c, size) ==
  IF c \in ContentCases THEN TileBuffers(size, TilePalette)
  ELSE TileBuffers(size, {<<90, 60, 30, 128>>})
\* random.uniform(0, 360), three of its draws
Angles == {0, 45, 90}

\* pattern_image.convert("RGBA").resize(pattern_size)
ResizedTile(img, size, values) ==
  IF img.size = size THEN {img} ELSE TileBuffers(size, values)

\* random.randint(-variation, variation)
RandInt(variation) == (-variation)..variation

FloorDiv(n, d) == n \div d
CeilDiv(n, d) == -((-n) \div d)

\* Image.rotate(angle, expand=True): the size of the returned buffer.  0 is a
\* copy, 90 a transpose; otherwise the bounding box of the four corners turned
\* about the centre, ceil(max) - floor(min), here for 45 degrees with
\* cos = sin = 0.7071
RotatedSize(size, angle) ==
  LET w == size[1]
      h == size[2]
      reach == (w + h) * 7071
  IN  IF angle = 0 THEN size
      ELSE IF angle = 90 THEN <<h, w>>
      ELSE <<CeilDiv(w * 10000 + reach, 20000) - FloorDiv(w * 10000 - reach, 20000),
             CeilDiv(h * 10000 + reach, 20000) - FloorDiv(h * 10000 - reach, 20000)>>

\* line 54: the working canvas
PatternLayer(base) == [size |-> base.size, stamps |-> <<>>]

\* line 65: pattern.copy() returns a buffer of its own
CopyAliased(ref) == ref

Copy(ref) == "pattern_with_alpha"

\* lines 74-75: the paste origin that centres the rotated tile on the cursor
PasteOrigin(cursor, rotated_extent) == cursor - FloorDiv(rotated_extent, 2)

\* line 78: the rotated tile reaches outside the base
OutOfBounds(paste_x, paste_y, rotated_size, base_size) ==
  \/ paste_x < 0
  \/ paste_y < 0
  \/ paste_x + rotated_size[1] > base_size[1]
  \/ paste_y + rotated_size[2] > base_size[2]

\* lines 78-82: whether the tile is pasted; the out-of-bounds branch is `pass`
PastedUnlessOutside(out_of_bounds) == ~out_of_bounds

Pasted(out_of_bounds) == TRUE

\* line 82: pattern_layer.paste(rotated_pattern, (paste_x, paste_y),
\* rotated_pattern): the canvas keeps its size; the paste is recorded by the
\* point the tile is centred on
PasteTileExpanding(layer, rotated_size, paste_x, paste_y) ==
  [size |-> <<IF paste_x + rotated_size[1] > layer.size[1]
              THEN paste_x + rotated_size[1] ELSE layer.size[1],
              IF paste_y + rotated_size[2] > layer.size[2]
              THEN paste_y + rotated_size[2] ELSE layer.size[2]>>,
   stamps |-> Append(layer.stamps,
                     <<paste_x + FloorDiv(rotated_size[1], 2),
                       paste_y + FloorDiv(rotated_size[2], 2)>>)]

PasteTile(layer, rotated_size, paste_x, paste_y) ==
  [layer EXCEPT !.stamps =
     Append(@, <<paste_x + FloorDiv(rotated_size[1], 2),
                 paste_y + FloorDiv(rotated_size[2], 2)>>)]

\* lines 85 and 88: the cursor after a cell or a column
AdvanceBySpacingOnly(cursor, tile_extent, delta) == cursor + delta

AdvanceMirrored(cursor, tile_extent, delta) == cursor + tile_extent - delta

Advance(cursor, tile_extent, delta) == cursor + tile_extent + delta

\* the smallest step the draws allow on an axis (1 = x, 2 = y)
MinStep(c, axis) ==
  c.pattern_size[axis] + c.base_spacing[axis] - c.spacing_variation[axis]

MayNotEnd(c) == MinStep(c, 1) <= 0 \/ MinStep(c, 2) <= 0

InitPattern ==
  /\ \E c \in PatternCases :
     \E o \in OtherInputs(c) :
     \E p \in TileContents(c, o.pattern_image_size) :
       cp = [pc |-> "start", base_image |-> [size |-> c.base_size],
             pattern_image |-> p, mask_image |-> [size |-> o.mask_image_size],
             pattern_size |-> c.pattern_size, base_spacing |-> c.base_spacing,
             spacing_variation |-> c.spacing_variation, alpha |-> o.alpha]
  /\ tx = Idle /\ bd = Idle /\ mn = Idle

\* lines 50-59: convert and resize, new canvas, x = 0
PatSetup ==
  /\ cp.pc = "start"
  /\ \E p \in ResizedTile(cp.pattern_image, cp.pattern_size, TilePalette) :
       cp' = [pc |-> "outer", base_image |-> cp.base_image,
              pattern_image |-> cp.pattern_image, mask_image |-> cp.mask_image,
              pattern_size |-> cp.pattern_size, base_spacing |-> cp.base_spacing,
              spacing_variation |-> cp.spacing_variation, alpha |-> cp.alpha,
              base |-> cp.base_image,
              mask |-> [size |-> cp.base_image.size],
              heap |-> [b \in {"pattern", "pattern_with_alpha"} |-> p],
              resized |-> p,
              pattern_layer |-> PatternLayer(cp.base_image),
              x |-> 0, y |-> 0, cells |-> 0,
              last |-> [pasted |-> FALSE],
              combined |-> [size |-> <<0, 0>>]]
  /\ UNCHANGED <<tx, bd, mn>>

\* lines 60-61: the outer test holds, a column starts
PatColumn ==
  /\ cp.pc = "outer"
  /\ cp.x < cp.base.size[1]
  /\ cp' = [cp EXCEPT !.pc = "inner", !.y = 0]
  /\ UNCHANGED <<tx, bd, mn>>

\* lines 62-85: the inner test holds, one cell is stamped and y advances
PatCell ==
  /\ cp.pc = "inner"
  /\ cp.y < cp.base.size[2]
  /\ MayNotEnd(cp) => cp.cells < MaxCells
  /\ \E random_angle \in Angles, jitter \in RandInt(cp.spacing_variation[2]) :
       LET pattern_with_alpha == Copy("pattern")
           copied == [cp.heap EXCEPT ![pattern_with_alpha] = cp.heap["pattern"]]
           heap == [copied EXCEPT ![pattern_with_alpha] =
                                     PutScaledAlpha(@, cp.alpha)]
           rotated_size == RotatedSize(heap[pattern_with_alpha].size, random_angle)
           paste_x == PasteOrigin(cp.x, rotated_size[1])
           paste_y == PasteOrigin(cp.y, rotated_size[2])
           outside == OutOfBounds(paste_x, paste_y, rotated_size, cp.base.size)
           delta_y == cp.base_spacing[2] + jitter
       IN  cp' = [cp EXCEPT
                    !.heap = heap,
                    !.pattern_layer =
                        IF Pasted(outside)
                        THEN PasteTile(@, rotated_size, paste_x, paste_y)
                        ELSE @,
                    !.last = [pasted |-> Pasted(outside), at |-> <<cp.x, cp.y>>,
                              angle |-> random_angle,
                              source |-> heap[pattern_with_alpha],
                              rotated_size |-> rotated_size,
                              paste_x |-> paste_x, paste_y |-> paste_y,
                              outside |-> outside],
                    !.cells = @ + 1,
                    !.y = Advance(cp.y, cp.pattern_size[2], delta_y)]
  /\ UNCHANGED <<tx, bd, mn>>

\* lines 62, 87-88: the inner test fails, x advances
PatNextColumn ==
  /\ cp.pc = "inner"
  /\ ~(cp.y < cp.base.size[2])
  /\ \E jitter \in RandInt(cp.spacing_variation[1]) :
       LET delta_x == cp.base_spacing[1] + jitter
       IN  cp' = [cp EXCEPT !.pc = "outer",
                            !.x = Advance(cp.x, cp.pattern_size[1], delta_x)]
  /\ UNCHANGED <<tx, bd, mn>>

\* lines 60, 90-94: the outer test fails; the canvas is masked and composited
\* over the base.  Image.composite and Image.alpha_composite raise ValueError
\* when their buffers differ in size.
PatFinish ==
  /\ cp.pc = "outer"
  /\ ~(cp.x < cp.base.size[1])
  /\ LET canvas == [size |-> cp.base.size]
         patterned_layer == [size |-> canvas.size]
     IN  cp' = IF cp.pattern_layer.size = canvas.size /\ cp.mask.size = canvas.size
               THEN [cp EXCEPT !.pc = "returned",
                               !.combined = [size |-> cp.base.size]]
               ELSE [cp EXCEPT !.pc = "raised"]
  /\ UNCHANGED <<tx, bd, mn>>

NextPattern == PatSetup \/ PatColumn \/ PatCell \/ PatNextColumn \/ PatFinish

(***************************************************************************)
(* main()                                                                  *)
(*                                                                         *)
(* The file system is an input: which paths are files, and which of them   *)
(* Image.open can open.  A buffer is modelled by how it was obtained: the  *)
(* path it was opened from, or the transform that returned it with the     *)
(* buffers passed to it.                                                   *)
(***************************************************************************)
sock_path == "images/sock.png"
texture_path == "images/texture.jpg"
dog_path == "images/dog.png"
mask_path == "images/sock_mask.png"
textured_sock_path == "sock_with_texture.png"
bordered_path == "bordered.png"
patterned_sock_path == "sock_with_pattern.png"
final_sock_path == "sock_final.png"

\* line 160: the order of the checks, which is also the order of the opens
InputPaths == <<sock_path, texture_path, dog_path, mask_path>>

Opened(path) == [opened |-> path]

\* what the three transforms return
ApplyTextureCall(base, texture, mask) ==
  [fn |-> "apply_texture", base |-> base, texture |-> texture, mask |-> mask]

BorderCall(img) == [fn |-> "border", img |-> img]

CreatePatternCall(base, pattern, mask) ==
  [fn |-> "create_pattern", base |-> base, pattern |-> pattern, mask |-> mask]

\* lines 162-163, 169-170, 175-176, 181-182, 187-188: the path is printed and
\* main returns
ReportAndCarryOn(m, message, path) ==
  [m EXCEPT !.printed = Append(@, [message |-> message, path |-> path]),
            !.images = IF m.pc = "open" THEN Append(@, Opened(path)) ELSE @,
            !.i = IF m.i = Len(InputPaths) THEN 1 ELSE m.i + 1,
            !.pc = IF m.i < Len(InputPaths) THEN m.pc
                   ELSE IF m.pc = "check" THEN "open" ELSE "texture"]

ReportAndReturn(m, message, path) ==
  [m EXCEPT !.printed = Append(@, [message |-> message, path |-> path]),
            !.pc = "returned"]

InitMain ==
  /\ \E isfile \in [{InputPaths[k] : k \in 1..4} -> BOOLEAN],
        opens \in [{InputPaths[k] : k \in 1..4} -> BOOLEAN] :
       mn = [pc |-> "check", i |-> 1, isfile |-> isfile, opens |-> opens,
             images |-> <<>>, printed |-> <<>>, calls |-> <<>>, written |-> <<>>]
  /\ tx = Idle /\ bd = Idle /\ cp = Idle

\* lines 160-163: one turn of the existence loop
MainCheckFile ==
  /\ mn.pc = "check"
  /\ LET file == InputPaths[mn.i]
     IN  mn' = IF ~mn.isfile[file]
               THEN ReportAndReturn(mn, "not found", file)
               ELSE [mn EXCEPT !.i = IF mn.i = Len(InputPaths) THEN 1 ELSE mn.i + 1,
                               !.pc = IF mn.i = Len(InputPaths) THEN "open" ELSE "check"]
  /\ UNCHANGED <<tx, bd, cp>>

\* lines 166-188: one of the four guarded Image.open calls
MainOpen ==
  /\ mn.pc = "open"
  /\ LET file == InputPaths[mn.i]
     IN  mn' = IF ~mn.opens[file]
               THEN ReportAndReturn(mn, "error opening", file)
               ELSE [mn EXCEPT !.images = Append(@, Opened(file)),
                               !.i = mn.i + 1,
                               !.pc = IF mn.i = Len(InputPaths) THEN "texture" ELSE "open"]
  /\ UNCHANGED <<tx, bd, cp>>

\* line 191: apply_texture(sock, texture, mask, ...), which saves its result
MainApplyTexture ==
  /\ mn.pc = "texture"
  /\ LET sock == mn.images[1]
         texture == mn.images[2]
         mask == mn.images[4]
         textured_sock == ApplyTextureCall(sock, texture, mask)
     IN  mn' = [pc |-> "border", i |-> mn.i, isfile |-> mn.isfile,
                opens |-> mn.opens, images |-> mn.images, printed |-> mn.printed,
                calls |-> Append(mn.calls, textured_sock),
                written |-> Append(mn.written, textured_sock_path),
                textured_sock |-> textured_sock]
  /\ UNCHANGED <<tx, bd, cp>>

\* lines 193-194: border(dog, 10, white), saved
MainBorder ==
  /\ mn.pc = "border"
  /\ LET dog == mn.images[3]
         bordered_sock == BorderCall(dog)
     IN  mn' = [pc |-> "pattern", i |-> mn.i, isfile |-> mn.isfile,
                opens |-> mn.opens, images |-> mn.images, printed |-> mn.printed,
                calls |-> Append(mn.calls, bordered_sock),
                written |-> Append(mn.written, bordered_path),
                textured_sock |-> mn.textured_sock,
                bordered_sock |-> bordered_sock]
  /\ UNCHANGED <<tx, bd, cp>>

\* lines 196-205: create_pattern(textured_sock, bordered_sock, mask, ...),
\* which saves its result
MainCreatePattern ==
  /\ mn.pc = "pattern"
  /\ LET mask == mn.images[4]
         patterned_sock == CreatePatternCall(mn.textured_sock, mn.bordered_sock, mask)
     IN  mn' = [pc |-> "save", i |-> mn.i, isfile |-> mn.isfile,
                opens |-> mn.opens, images |-> mn.images, printed |-> mn.printed,
                calls |-> Append(mn.calls, patterned_sock),
                written |-> Append(mn.written, patterned_sock_path),
                textured_sock |-> mn.textured_sock,
                bordered_sock |-> mn.bordered_sock,
                patterned_sock |-> patterned_sock]
  /\ UNCHANGED <<tx, bd, cp>>

\* lines 208-211: the final save
MainSave ==
  /\ mn.pc = "save"
  /\ mn' = [mn EXCEPT !.pc = "returned",
                      !.written = Append(@, final_sock_path)]
  /\ UNCHANGED <<tx, bd, cp>>

NextMain ==
  \/ MainCheckFile \/ MainOpen \/ MainApplyTexture \/ MainBorder
  \/ MainCreatePattern \/ MainSave

Init == InitTexture \/ InitBorder \/ InitPattern \/ InitMain

Next == NextTexture \/ NextBorder \/ NextPattern \/ NextMain

Spec == Init /\ [][Next]_vars

SpecTexture == InitTexture /\ [][NextTexture]_vars

SpecBorder == InitBorder /\ [][NextBorder]_vars

SpecPattern == InitPattern /\ [][NextPattern]_vars

SpecMain == InitMain /\ [][NextMain]_vars

\* apply_texture and create_pattern, for what the two have in common
SpecSizes == (InitTexture \/ InitPattern) /\ [][NextTexture \/ NextPattern]_vars

\* create_pattern runs on one thread that never waits: it takes its next step
\* whenever it has one
FairPattern == SpecPattern /\ WF_vars(NextPattern)

\* C1 (mask gating): every pixel of the buffer apply_texture returns whose
\* resized mask value is 0 equals the RGBA base pixel at the same position.
C1_MaskGating ==
  tx.pc = "returned" =>
    \A c \in DOMAIN tx.mask.px :
      tx.mask.px[c] = 0 => tx.textured.px[c] = tx.base.px[c]

\* a returned buffer with a pixel outside the mask under a visible texture,
\* next to a pixel inside the mask that the texture did change
C1_Witness ==
  /\ tx.pc = "returned"
  /\ \E c \in DOMAIN tx.mask.px :
       /\ tx.mask.px[c] = 0
       /\ tx.texture.px[c][4] > 0
       /\ tx.base.px[c][4] > 0
  /\ \E c \in DOMAIN tx.mask.px :
       tx.mask.px[c] > 0 /\ tx.textured.px[c] # tx.base.px[c]

\* the output pixel of border at the position of img's pixel c
InteriorPixel(c) ==
  bd.stroke_image.px[<<c[1] + bd.stroke_radius, c[2] + bd.stroke_radius>>]

\* C2 as claimed (idempotent interior): every pixel of img whose alpha is > 0,
\* partial alpha included, is reproduced at offset (radius, radius).
C2_InteriorAnyAlpha ==
  bd.pc = "returned" =>
    \A c \in DOMAIN bd.img.px :
      bd.img.px[c][4] > 0 => InteriorPixel(c) = bd.img.px[c]

\* C2 as amended: every pixel of img whose alpha is 255 is reproduced at
\* offset (radius, radius) in all four channels.
C2_InteriorOpaque ==
  bd.pc = "returned" =>
    \A c \in DOMAIN bd.img.px :
      bd.img.px[c][4] = 255 => InteriorPixel(c) = bd.img.px[c]

\* a bordered image with an opaque pixel that differs from the border colour
C2_Witness ==
  /\ bd.pc = "returned"
  /\ bd.stroke_radius > 0
  /\ \E c \in DOMAIN bd.img.px :
       bd.img.px[c][4] = 255 /\ bd.img.px[c] # bd.color

\* C3 (border growth exactness): border returns a buffer of size
\* (img.width + 2r, img.height + 2r), which for r = 0 is img's size.
C3_BorderGrowth ==
  bd.pc = "returned" =>
    /\ bd.stroke_image.size =
         <<bd.img.size[1] + 2 * bd.stroke_radius, bd.img.size[2] + 2 * bd.stroke_radius>>
    /\ DOMAIN bd.stroke_image.px = Coords(bd.stroke_image.size)
    /\ bd.stroke_radius = 0 => bd.stroke_image.size = bd.img.size

C3_Witness ==
  /\ bd.pc = "returned"
  /\ bd.stroke_radius = MaxRadius
  /\ bd.img.size[1] # bd.img.size[2]

\* C7 (dilation monotonicity): every img-relative position in the dilated
\* silhouette for a radius r1 is in the dilated silhouette for any larger
\* radius r2.
C7_DilationMonotone ==
  bd.pc = "dilated" =>
    \A r1 \in 0 .. bd.stroke_radius - 1 :
      LET small == DilatedSilhouette(bd.img, r1)
          d == bd.stroke_radius - r1
      IN  \A q \in DOMAIN small.px :
            small.px[q] = 255 => bd.stroke_alpha.px[<<q[1] + d, q[2] + d>>] = 255

\* a dilation that grew the silhouette without filling the canvas
C7_Witness ==
  /\ bd.pc = "dilated"
  /\ bd.stroke_radius >= 2
  /\ \E q \in DOMAIN bd.stroke_alpha.px : bd.stroke_alpha.px[q] = 0
  /\ \E q \in DOMAIN bd.stroke_alpha.px :
       /\ bd.stroke_alpha.px[q] = 255
       /\ SilhouetteBand(bd.img, bd.stroke_radius).px[q] = 0

(***************************************************************************)
(* create_pattern: the claims                                              *)
(***************************************************************************)
Walking == cp.pc \in {"outer", "inner", "returned", "raised"}
StepX == cp.pattern_size[1] + cp.base_spacing[1]
StepY == cp.pattern_size[2] + cp.base_spacing[2]
JitterFree == cp.spacing_variation = <<0, 0>>
StampSet == {cp.pattern_layer.stamps[k] : k \in 1 .. Len(cp.pattern_layer.stamps)}

\* the grid points (i * StepX, j * StepY), i, j >= 0, inside the base
GridPoints ==
  {pt \in {<<i * StepX, j * StepY>> : i \in 0 .. (cp.base.size[1] \div StepX) + 1,
                                      j \in 0 .. (cp.base.size[2] \div StepY) + 1} :
     pt[1] < cp.base.size[1] /\ pt[2] < cp.base.size[2]}

\* C4 (grid coverage): without jitter, and with a positive step on both axes,
\* every cell pastes its tile, centred on a grid point inside the base that no
\* earlier cell used, whether or not the rotated tile overhangs the base; when
\* create_pattern returns, the pasted points are exactly the grid points, and
\* for the 500x500 example they are the 16 points with x, y in {0, 150, 300, 450}.
C4_GridCoverage ==
  (Walking /\ JitterFree /\ StepX >= 1 /\ StepY >= 1) =>
    /\ Len(cp.pattern_layer.stamps) = cp.cells
    /\ StampSet \subseteq GridPoints
    /\ Cardinality(StampSet) = Len(cp.pattern_layer.stamps)
    /\ cp.last.pasted =>
         cp.pattern_layer.stamps[Len(cp.pattern_layer.stamps)] = cp.last.at
    /\ cp.pc = "returned" =>
         /\ StampSet = GridPoints
         /\ (cp.base.size = <<500, 500>> /\ cp.pattern_size = <<100, 100>>
               /\ cp.base_spacing = <<50, 50>>) =>
              /\ StampSet = {0, 150, 300, 450} \X {0, 150, 300, 450}
              /\ cp.cells = 16

\* the example has returned; its last tile, at (450, 450), overhangs the base
C4_Witness ==
  /\ cp.pc = "returned"
  /\ cp.base.size = <<500, 500>>
  /\ cp.cells = 16
  /\ cp.last.at = <<450, 450>>
  /\ cp.last.outside
  /\ cp.last.angle = 45

\* tileSize + baseSpacing <= 0 on an axis, no jitter
ImpossibleGeometry ==
  /\ Walking
  /\ JitterFree
  /\ (StepX <= 0 \/ StepY <= 0)

C8_DimensionPreservation ==
  /\ tx.pc # "raised"
  /\ cp.pc # "raised"
  /\ tx.pc = "returned" =>
       /\ tx.textured.size = tx.base_image.size
       /\ DOMAIN tx.textured.px = Coords(tx.base_image.size)
  /\ Walking => cp.pattern_layer.size = cp.base_image.size
  /\ cp.pc = "returned" => cp.combined.size = cp.base_image.size

\* create_pattern returned after pasting a rotated tile that overhangs the
\* base, with a tile source and a mask of other sizes than the tile and the base
C8_Witness ==
  /\ cp.pc = "returned"
  /\ cp.last.pasted /\ cp.last.outside
  /\ cp.last.rotated_size # cp.pattern_size
  /\ cp.mask_image.size # cp.base_image.size
  /\ cp.pattern_image.size # cp.pattern_size

GoodGeometry == cp.pc # "idle" /\ MinStep(cp, 1) >= 1 /\ MinStep(cp, 2) >= 1

\* C9 (grid-walk termination): if tileSize + baseSpacing - jitterRange >= 1 on
\* both axes then, whatever the draws, y grows at every inner step and x at
\* every outer step, every visited point is inside the base, and the walk ends;
\* if it is <= 0 on an axis, a draw that does not advance that axis's cursor is
\* possible at every step of that axis, so a run that never ends exists.
C9_GridWalk ==
  /\ [][(GoodGeometry /\ cp.pc = "inner" /\ cp'.pc = "inner") => cp'.y > cp.y]_vars
  /\ [][(GoodGeometry /\ cp.pc = "inner" /\ cp'.pc = "outer") => cp'.x > cp.x]_vars
  /\ []((GoodGeometry /\ Walking) =>
          /\ cp.last.pasted =>
               /\ 0 <= cp.last.at[1] /\ cp.last.at[1] < cp.base.size[1]
               /\ 0 <= cp.last.at[2] /\ cp.last.at[2] < cp.base.size[2]
          /\ cp.cells <= cp.base.size[1] * cp.base.size[2])
  /\ GoodGeometry ~> (cp.pc = "returned")
  /\ []((cp.pc = "inner" /\ MinStep(cp, 2) <= 0 /\ cp.y < cp.base.size[2]
            /\ cp.cells < MaxCells) =>
          ENABLED (PatCell /\ cp'.pc = "inner" /\ cp'.y <= cp.y))
  /\ []((cp.pc = "inner" /\ MinStep(cp, 1) <= 0 /\ ~(cp.y < cp.base.size[2])) =>
          ENABLED (PatNextColumn /\ cp'.x <= cp.x /\ cp'.x < cp.base.size[1]))

\* a jittered walk that ended after cells in two columns and two rows
C9_Witness ==
  /\ cp.pc = "returned"
  /\ cp.spacing_variation = <<1, 1>>
  /\ \E k \in 1 .. Len(cp.pattern_layer.stamps) :
       cp.pattern_layer.stamps[k][1] > 0 /\ cp.pattern_layer.stamps[k][2] > 0

\* C10 (tile independence): the resized tile is never modified during the
\* walk, and the tile each cell rotates and pastes is the resized tile with its
\* alpha scaled exactly once.
C10_TileIndependence ==
  Walking =>
    /\ cp.heap["pattern"] = cp.resized
    /\ cp.last.pasted => cp.last.source = PutScaledAlpha(cp.resized, cp.alpha)

\* three cells stamped from a tile whose alpha a second scaling would change
C10_Witness ==
  /\ Walking
  /\ cp.cells >= 3
  /\ cp.last.pasted
  /\ PutScaledAlpha(cp.last.source, cp.alpha) # cp.last.source
  /\ cp.last.source # cp.resized

(***************************************************************************)
(* main: the claim                                                         *)
(***************************************************************************)
Failing == {f \in DOMAIN mn.isfile : ~mn.isfile[f] \/ ~mn.opens[f]}

Pipeline ==
  LET textured_sock == ApplyTextureCall(Opened(sock_path), Opened(texture_path),
                                        Opened(mask_path))
      bordered_sock == BorderCall(Opened(dog_path))
  IN  <<textured_sock, bordered_sock,
        CreatePatternCall(textured_sock, bordered_sock, Opened(mask_path))>>

\* C6 (fail-fast pipeline): if an input file is absent or fails to open, no
\* transform is called and no output is written, and main returns after
\* reporting a failing path; if all four load, the calls are apply_texture,
\* border, create_pattern in this order, create_pattern taking apply_texture's
\* result as base and border's result as pattern.
C6_FailFast ==
  mn.pc # "idle" =>
    /\ Failing # {} =>
         /\ mn.calls = <<>>
         /\ mn.written = <<>>
         /\ mn.pc \in {"check", "open", "returned"}
         /\ mn.pc = "returned" =>
              (Len(mn.printed) = 1 /\ mn.printed[1].path \in Failing)
    /\ Failing = {} =>
         /\ mn.printed = <<>>
         /\ Len(mn.calls) <= 3
         /\ mn.calls = SubSeq(Pipeline, 1, Len(mn.calls))
         /\ mn.pc = "returned" =>
              (mn.calls = Pipeline
                 /\ mn.written = <<textured_sock_path, bordered_path,
                                   patterned_sock_path, final_sock_path>>)

\* main returned on a file that exists but does not open, after opening two
C6_Witness ==
  /\ mn.pc = "returned"
  /\ Len(mn.images) = 2
  /\ mn.printed = <<[message |-> "error opening", path |-> dog_path]>>
====
